---- MODULE Spec2Model ----
(***************************************************************************)
(* A model of the upload pipeline and the note repository of the           *)
(* note-sharing application:                                               *)
(*   - createFileChunks             (src/lib/chunkUploader.ts)             *)
(*   - uploadNote / uploadLargeFile (src/lib/api/upload.ts, batches)       *)
(*   - uploadNote / uploadLargeFile (src/lib/api.ts, worker pool)          *)
(*   - rateNote, fetchNotes         (src/lib/api.ts)                       *)
(*   - deleteNote                   (src/lib/api.ts)                       *)
(*   - UploadForm                   (src/components/UploadForm.tsx)        *)
(*   - compressFile and the upload that calls it                           *)
(*                                                                         *)
(* Sizes are counted in blocks: one block is the unit in which the model   *)
(* measures a file, and a "byte" of the model is one such block.  The      *)
(* JavaScript event loop runs one task to completion and then drains the   *)
(* promise continuations (microtasks) it made runnable, so one action of   *)
(* the model is one task (a call, or one event of one request) together    *)
(* with the continuations that task releases.                              *)
(***************************************************************************)
EXTENDS Integers, Sequences, FiniteSets, TLC

VARIABLES
    \* ---- createFileChunks (chunkUploader.ts:25-36)
    file,            \* the File: its bytes, in order
    maxChunkSize,    \* the parameter maxChunkSize
    start,           \* the local variable start
    chunks,          \* the local variable chunks: a sequence of Blobs
    cfpc,            \* position of createFileChunks: "idle", "loop" or "done"
    \* ---- uploadNote, both implementations
    impl,            \* "none", "batch" (api/upload.ts) or "pool" (api.ts)
    pc,              \* position of uploadNote
    chunkState,      \* per chunk index: "pending", "inflight", "ok", "failed"
    sent,            \* per chunk index: event.loaded of its last progress event
    totalUploaded,   \* upload.ts:100
    lastReportedProgress, \* upload.ts:102
    progressLog,     \* the calls made to onProgress, in order
    storage,         \* the objects held by the storage bucket
    notes,           \* the rows of the notes table
    uploadError,     \* the error uploadNote rejected with
    nextChunkIndex,  \* api.ts:179
    activeChunks,    \* api.ts:178
    chunkProgress,   \* api.ts:165
    batchI,          \* upload.ts:106, the loop variable i
    xhrEnd,          \* the <<chunk index, event>> pairs of the uploadChunk
                     \* requests that have ended
    metadata,        \* the ChunkMetadata persisted at 'metadata/<uploadId>'
    \* ---- rateNote
    ratings,         \* the rows of the ratings table, in insertion order
    calls,           \* per caller: the rateNote call it is in
    rateCount,       \* number of rateNote calls made so far
    overlapped,      \* has a rateNote call started while another was running
    lastResolved,    \* the (note, user, rating) of the latest resolved call
    selectFailed,    \* has the select of a rateNote call returned an error
    \* ---- fetchNotes
    fetched,         \* what the latest fetchNotes call settled with
    fetchCount,      \* number of fetchNotes calls made so far
    \* ---- deleteNote
    del,             \* the deleteNote call: its position, its note, storageError
    delCount,        \* number of deleteNote calls made so far
    \* ---- UploadForm (components/UploadForm.tsx)
    formTitle,       \* the title field: does it have 3 characters or more
    formFile,        \* the file field of the form: a FileList, or not set
    selectedFile,    \* UploadForm.tsx:46, <<>> for null, else <<size>>
    isUploading,     \* UploadForm.tsx:45
    uploadProgress,  \* UploadForm.tsx:47
    formPc,          \* position of onSubmit: "idle" or "uploading"
    submitted,       \* the file onSubmit is uploading
    invoked,         \* the calls of uploadNote made by the form
    submits,         \* what each submit event so far led to: "invalid",
                     \* "returned" (UploadForm.tsx:68) or "uploadNote"
    \* ---- the upload with a compression pass
    compUpload       \* its position, its file, its payload and what failed

vars == <<file, maxChunkSize, start, chunks, cfpc,
          impl, pc, chunkState, sent, totalUploaded, lastReportedProgress,
          progressLog, storage, notes, uploadError,
          nextChunkIndex, activeChunks, chunkProgress, batchI, xhrEnd, metadata,
          ratings, calls, rateCount, overlapped, lastResolved, selectFailed,
          fetched, fetchCount, del, delCount,
          formTitle, formFile, selectedFile, isUploading, uploadProgress,
          formPc, submitted, invoked, submits, compUpload>>

cfVars == <<file, maxChunkSize, start, chunks, cfpc>>
upVars == <<impl, pc, chunkState, sent, totalUploaded, lastReportedProgress,
            progressLog, storage, notes, uploadError,
            nextChunkIndex, activeChunks, chunkProgress, batchI>>
fnVars == <<fetched, fetchCount>>
dlVars == <<del, delCount>>
fmVars == <<formTitle, formFile, selectedFile, isUploading, uploadProgress,
            formPc, submitted, invoked, submits>>
rtVars == <<ratings, calls, rateCount, overlapped, lastResolved, selectFailed,
            fetched, fetchCount>>

\* ------------------------------------------------------------------ bounds
\* Largest file given to createFileChunks, in blocks.
MaxSize == 8
\* Largest maxChunkSize given to createFileChunks, in blocks.
MaxChunk == 3
\* The values a byte (block) of a file can take.
Byte == {0, 1}

\* ------------------------------------------------------------------ helpers
Min(a, b) == IF a < b THEN a ELSE b
Max(a, b) == IF a > b THEN a ELSE b

\* All sequences over S of length 0..n.
RECURSIVE SeqsUpTo(_, _)
SeqsUpTo(S, n) ==
    IF n = 0 THEN {<<>>}
    ELSE LET shorter == SeqsUpTo(S, n - 1)
         IN  shorter \cup {Append(s, x) : s \in {t \in shorter : Len(t) = n - 1}, x \in S}

\* Blob.size
Size(blob) == Len(blob)

\* Blob.slice(s, e): the bytes at offsets s .. e-1, offsets clamped to the blob.
SliceEndInclusive(blob, s, e) ==
    LET from == Min(Max(s, 0), Size(blob))
        to   == Min(Max(e + 1, 0), Size(blob))
    IN  SubSeq(blob, from + 1, to)
Slice(blob, s, e) ==
    LET from == Min(Max(s, 0), Size(blob))
        to   == Min(Max(e, 0), Size(blob))
    IN  SubSeq(blob, from + 1, to)

\* The concatenation of a sequence of blobs, in index order.
RECURSIVE Concat(_)
Concat(blobs) ==
    IF blobs = <<>> THEN <<>> ELSE Head(blobs) \o Concat(Tail(blobs))

\* ceil(a / b) for a >= 0, b >= 1
CeilDiv(a, b) == (a + b - 1) \div b

\* ---------------------------------------------------------- createFileChunks
\* The loop condition: start < file.size
LoopCondOffByOne(s, f) == s + 1 < Size(f)
LoopCond(s, f) == s < Size(f)

\* The end that is not clamped to the size of the file.
ChunkEndUnclamped(s, max, f) == s + max
\* end of one iteration of the loop: Math.min(start + maxChunkSize, file.size)
ChunkEnd(s, max, f) == Min(s + max, Size(f))

\* The whole loop, from the offset s with the chunks acc made so far.
RECURSIVE ChunkLoop(_, _, _, _)
ChunkLoop(f, max, s, acc) ==
    IF LoopCond(s, f)
    THEN LET end == ChunkEnd(s, max, f)
         IN  ChunkLoop(f, max, end, Append(acc, Slice(f, s, end)))
    ELSE acc

\* createFileChunks(file, maxChunkSize)
CreateFileChunks(f, max) == ChunkLoop(f, max, 0, <<>>)

\* The value of uploadError as long as nothing was thrown.
NoError == [kind |-> "none", index |-> 0, how |-> "none"]

\* The defaults of the other programs' state while createFileChunks runs.
UploadIdle ==
    /\ impl = "none" /\ pc = "idle"
    /\ chunkState = <<>> /\ sent = <<>>
    /\ totalUploaded = 0 /\ lastReportedProgress = 0
    /\ progressLog = <<>> /\ storage = {} /\ notes = <<>>
    /\ uploadError = NoError
    /\ nextChunkIndex = 0 /\ activeChunks = 0 /\ chunkProgress = <<>>
    /\ batchI = 0 /\ xhrEnd = {} /\ metadata = {}

\* No deleteNote call has been made.
NoDelete ==
    [at |-> "idle", note |-> [id |-> 0, path |-> "none", file_url |-> <<>>],
     storageError |-> "unset"]

DeleteIdle == del = NoDelete /\ delCount = 0

\* No upload with a compression pass has been started.
NoCompUpload ==
    [at |-> "idle", file |-> <<>>, payload |-> [gzip |-> FALSE, data |-> <<>>],
     compressionFailed |-> FALSE, transportFailed |-> FALSE]

CompIdle == compUpload = NoCompUpload

\* The file field before a file was chosen, and after form.reset().
NoFileList == [set |-> FALSE, files |-> <<>>]

\* The UploadForm as it is mounted (UploadForm.tsx:45-57).
FormIdle ==
    /\ formTitle = FALSE /\ formFile = NoFileList /\ selectedFile = <<>>
    /\ isUploading = FALSE /\ uploadProgress = 0
    /\ formPc = "idle" /\ submitted = <<>> /\ invoked = {} /\ submits = <<>>

RateIdle ==
    /\ ratings = <<>> /\ calls = <<>> /\ rateCount = 0
    /\ overlapped = FALSE /\ lastResolved = <<>>
    /\ selectFailed = FALSE
    /\ fetched = [at |-> "idle", notes |-> <<>>] /\ fetchCount = 0

\* createFileChunks(file, maxChunkSize) is called: chunks = [], start = 0.
InitChunks ==
    /\ file \in SeqsUpTo(Byte, MaxSize)
    /\ maxChunkSize \in 1..MaxChunk
    /\ start = 0
    /\ chunks = <<>>
    /\ cfpc = "loop"
    /\ UploadIdle
    /\ RateIdle
    /\ DeleteIdle
    /\ FormIdle
    /\ CompIdle

\* One iteration of: while (start < file.size) { ... }
CreateFileChunksStep ==
    /\ cfpc = "loop"
    /\ LoopCond(start, file)
    /\ LET end == ChunkEnd(start, maxChunkSize, file)
       IN  /\ chunks' = Append(chunks, Slice(file, start, end))
           /\ start' = end
    /\ UNCHANGED <<file, maxChunkSize, cfpc>>
    /\ UNCHANGED upVars
    /\ UNCHANGED rtVars
    /\ UNCHANGED dlVars
    /\ UNCHANGED fmVars
    /\ UNCHANGED compUpload
    /\ UNCHANGED xhrEnd
    /\ UNCHANGED metadata

\* The loop condition fails: return chunks.
CreateFileChunksReturn ==
    /\ cfpc = "loop"
    /\ ~LoopCond(start, file)
    /\ cfpc' = "done"
    /\ UNCHANGED <<file, maxChunkSize, start, chunks>>
    /\ UNCHANGED upVars
    /\ UNCHANGED rtVars
    /\ UNCHANGED dlVars
    /\ UNCHANGED fmVars
    /\ UNCHANGED compUpload
    /\ UNCHANGED xhrEnd
    /\ UNCHANGED metadata

NextChunks == CreateFileChunksStep \/ CreateFileChunksReturn

SpecChunks == InitChunks /\ [][NextChunks]_vars

\* createFileChunks is synchronous code: as long as a step of it is possible
\* one is taken.
SpecChunksFair == InitChunks /\ [][NextChunks]_vars /\ WF_vars(NextChunks)

\* C1: createFileChunks returns exactly ceil(S/C) chunks; every chunk but the
\* last has size C, the last has size S mod C (C when S is a multiple of C),
\* and a file of size 0 gives the empty sequence.
C1_ChunkCountAndSizes ==
    cfpc = "done" =>
        LET S == Size(file)
            C == maxChunkSize
            n == Len(chunks)
        IN  /\ n = CeilDiv(S, C)
            /\ \A i \in 1..n : i < n => Size(chunks[i]) = C
            /\ n > 0 => Size(chunks[n]) = (IF S % C = 0 THEN C ELSE S % C)
            /\ S = 0 => chunks = <<>>

\* The example of the specification, in blocks of 15MB: 120MB is 8 blocks and
\* 45MB is 3 blocks; the result is three chunks of 3, 3 and 2 blocks.
C1_Witness ==
    /\ cfpc = "done"
    /\ Size(file) = 8
    /\ maxChunkSize = 3
    /\ Len(chunks) = 3
    /\ <<Size(chunks[1]), Size(chunks[2]), Size(chunks[3])>> = <<3, 3, 2>>

\* C2: the chunks are contiguous, non-overlapping and in index order: chunk i
\* (from 0) holds the bytes [i*C, min((i+1)*C, S)) of the file, and the
\* concatenation of the chunks in index order is the file.
C2_ChunksRoundTrip ==
    cfpc = "done" =>
        /\ \A i \in 1..Len(chunks) :
              chunks[i] = SubSeq(file, (i - 1) * maxChunkSize + 1,
                                 Min(i * maxChunkSize, Size(file)))
        /\ Concat(chunks) = file

\* A file of several chunks whose bytes differ, split with a short last chunk.
C2_Witness ==
    /\ cfpc = "done"
    /\ Len(chunks) >= 3
    /\ Size(file) % maxChunkSize # 0
    /\ \E i, j \in 1..Size(file) : file[i] # file[j]
    /\ Concat(chunks) = file


\* ================================================================ uploadNote
\* Largest file given to uploadNote, in blocks.
MaxFileSize == 9

\* chunkUploader.ts:9, in blocks: a block of api/upload.ts is 22.5MB.
MAX_CHUNK_SIZE == 2
\* chunkUploader.ts:12
MAX_PARALLEL_UPLOADS == 3
\* api.ts:159, in blocks: a block of api.ts is 5MB.
CHUNK_SIZE == 1
\* api.ts:118, the size above which api.ts uploads in chunks (10MB).
LARGE_FILE_SIZE == 2
\* api.ts:177
MAX_CONCURRENT_CHUNKS == 3

\* How a request can end: onload with a 2xx status, onload with another
\* status, onerror, ontimeout, onabort.
XhrEnds == {"load2xx", "loadOther", "error", "timeout", "abort"}
\* How a call of the store client can end: { error: null } or { error }.
StoreEnds == {"ok", "error"}

\* A file of n blocks (its content plays no part in an upload).
FileOfSize(n) == [k \in 1..n |-> 0]

\* The chunk indices of the upload.
ChunkIndices == DOMAIN chunkState

\* chunks.slice(from, to) as a set of indices
SliceAllFrom(from, to, n) == {k \in 0..(n - 1) : from <= k}
SliceIndices(from, to, n) == {k \in 0..(n - 1) : from <= k /\ k < to}

\* The indices of the batch that starts at i: chunks.slice(i, i + MAX_PARALLEL_UPLOADS)
BatchIndices(i, n) == SliceIndices(i, i + MAX_PARALLEL_UPLOADS, n)

\* The loop variable i captured by the progress tracker of chunk k.
BatchStartOf(k) == k - (k % MAX_PARALLEL_UPLOADS)

\* chunks.slice(0, i).reduce((sum, c) => sum + c.size, 0)
RECURSIVE SumSizes(_, _)
SumSizes(cs, i) == IF i <= 0 THEN 0 ELSE Size(cs[i]) + SumSizes(cs, i - 1)

\* The state of Promise.all(promises) over the chunk promises S: rejected as
\* soon as one of them is, fulfilled once all of them are.
PromiseAny(S, st) ==
    IF \E k \in S : st[k] = "ok" THEN "fulfilled"
    ELSE IF \A k \in S : st[k] = "failed" THEN "rejected"
    ELSE "pending"
PromiseAllSettled(S, st) ==
    IF \A k \in S : st[k] \in {"ok", "failed"} THEN "fulfilled" ELSE "pending"
PromiseAll(S, st) ==
    IF \E k \in S : st[k] = "failed" THEN "rejected"
    ELSE IF \A k \in S : st[k] = "ok" THEN "fulfilled"
    ELSE "pending"

\* The step of the batch loop: i += MAX_PARALLEL_UPLOADS
NextBatchSkipsOne(i) == i + MAX_PARALLEL_UPLOADS + 1
NextBatchStart(i) == i + MAX_PARALLEL_UPLOADS

\* One call onProgress(loaded, total).
Report(loaded, total) == [loaded |-> loaded, total |-> total]

\* ------------------------------------------- object paths and file URLs
\* A path or a URL is the sequence of its '/'-separated segments, and a
\* segment is the tuple of its parts.
\* folderName (api.ts:111, upload.ts:25).
FolderName == <<"anonymous">>
\* fileName = `${Date.now()}_${file.name}` (api.ts:108, upload.ts:41).
FileName == <<"fileName">>
\* uploadId (upload.ts:93).
UploadId == <<"uploadId">>
\* filePath = `${folderName}/${fileName}` (api.ts:112, upload.ts:42).
FilePath == <<FolderName, FileName>>

\* The path each object of the bucket was written at.
ObjectPath(obj) ==
    CASE obj[1] = "file" -> FilePath
      [] obj[1] = "chunk" -> <<FolderName, <<"uploadId", "chunk", obj[2]>> >>
      [] obj[1] = "metadata" -> << <<"metadata">>, UploadId >>
      [] obj[1] = "part" -> <<FolderName, <<"fileName", "part", obj[2]>> >>
      [] obj[1] = "metadata.json" -> <<FolderName, <<"fileName", "metadata.json">> >>

\* getStorageUrl() (helpers.ts:28-30), split at '/'.
GetStorageUrl == << <<"https:">>, <<>>, <<"host">>, <<"storage">>, <<"v1">> >>

\* getFileUrl(filePath) (api.ts:367-370): the public URL of the object.
GetFileUrl(filePath) ==
    GetStorageUrl \o << <<"object">>, <<"public">>, <<"notes">> >> \o filePath

\* The file_url of a chunked upload of api/upload.ts (chunkUploader.ts:123):
\* .../object/notes/chunked/<uploadId>/<encoded file.name>.
ChunkedFileUrl ==
    GetStorageUrl \o << <<"object">>, <<"notes">>, <<"chunked">>, UploadId,
                        <<"file.name">> >>

\* The number of chunk uploads started and not yet settled.
InFlight == {k \in ChunkIndices : chunkState[k] = "inflight"}

CfIdle ==
    /\ maxChunkSize = 0 /\ start = 0 /\ cfpc = "idle"

\* uploadNote(title, description, file, userId, onProgress) is about to be
\* called, in one of the two implementations.
InitUploadOf(impls) ==
    /\ impl \in impls
    /\ file \in {FileOfSize(n) : n \in 0..MaxFileSize}
    /\ chunks = <<>>
    /\ CfIdle
    /\ pc = "start"
    /\ chunkState = <<>> /\ sent = <<>>
    /\ totalUploaded = 0 /\ lastReportedProgress = 0
    /\ progressLog = <<>> /\ storage = {} /\ notes = <<>>
    /\ uploadError = NoError
    /\ nextChunkIndex = 0 /\ activeChunks = 0 /\ chunkProgress = <<>>
    /\ batchI = 0 /\ xhrEnd = {} /\ metadata = {}
    /\ RateIdle
    /\ DeleteIdle
    /\ FormIdle
    /\ CompIdle

\* ------------------------------------------------ api/upload.ts (batches)
\* The catch of uploadNote (upload.ts:76-81): onProgress(file.size, file.size),
\* then the error is rethrown.
BatchReject(err, log) ==
    /\ progressLog' = Append(log, Report(Size(file), Size(file)))
    /\ uploadError' = err
    /\ pc' = "rejected"

\* The test that also chunks a file of exactly MAX_CHUNK_SIZE.
NeedsChunkingAtLimit(f) == Size(f) >= MAX_CHUNK_SIZE
\* const needsChunking = file.size > MAX_CHUNK_SIZE (upload.ts:28).
NeedsChunking(f) == Size(f) > MAX_CHUNK_SIZE

\* uploadNote up to its first await (upload.ts:22-45), and with it
\* uploadLargeFile up to the await of the first batch (upload.ts:93-142) or
\* uploadWithProgress up to xhr.send (upload.ts:176-230).
BatchUploadNoteCall ==
    /\ impl = "batch"
    /\ pc = "start"
    /\ LET needsChunking == NeedsChunking(file)
           cs == CreateFileChunks(file, MAX_CHUNK_SIZE)
           n  == Len(cs)
       IN  /\ progressLog' = <<Report(0, Size(file))>>
           /\ IF needsChunking
              THEN /\ chunks' = cs
                   /\ chunkState' = [k \in 0..(n - 1) |->
                          IF k \in BatchIndices(0, n) THEN "inflight" ELSE "pending"]
                   /\ sent' = [k \in 0..(n - 1) |-> 0]
                   /\ pc' = "chunks"
              ELSE /\ chunks' = chunks
                   /\ chunkState' = chunkState
                   /\ sent' = [k \in {0} |-> 0]
                   /\ pc' = "direct"
    /\ totalUploaded' = 0
    /\ lastReportedProgress' = 0
    /\ batchI' = 0
    /\ UNCHANGED <<file, maxChunkSize, start, cfpc, storage, notes, uploadError,
                   impl, nextChunkIndex, activeChunks, chunkProgress>>
    /\ UNCHANGED rtVars
    /\ UNCHANGED dlVars
    /\ UNCHANGED fmVars
    /\ UNCHANGED compUpload
    /\ UNCHANGED xhrEnd
    /\ UNCHANGED metadata

\* The report that passes the total of the progress event of the chunk.
TrackerReportEventTotal(uploaded, total, totalSize) == Report(uploaded, total)
\* onProgress(totalUploaded, totalSize) (upload.ts:131-134).
TrackerReport(uploaded, total, totalSize) == Report(uploaded, totalSize)

\* The test that lets a report of the same whole percent through.
ProgressNotBehind(currentProgress, last) == currentProgress >= last
\* if (currentProgress > lastReportedProgress) (upload.ts:129).
ProgressAdvanced(currentProgress, last) == currentProgress > last

\* xhr.upload.onprogress of chunk k (chunkUploader.ts:64-68) with the tracker
\* of upload.ts:120-137.  event.total is the size of the chunk.
BatchChunkProgress(k, loaded) ==
    /\ impl = "batch"
    /\ k \in ChunkIndices
    /\ chunkState[k] = "inflight"
    /\ loaded >= sent[k]
    /\ LET chunk     == chunks[k + 1]
           total     == Size(chunk)
           totalSize == Size(file)
           i         == BatchStartOf(k)
           uploaded  == SumSizes(chunks, i) + (loaded * Size(chunk)) \div total
           currentProgress == (uploaded * 100) \div totalSize
       IN  /\ loaded <= total
           /\ sent' = [sent EXCEPT ![k] = loaded]
           /\ totalUploaded' = uploaded
           /\ IF ProgressAdvanced(currentProgress, lastReportedProgress)
              THEN /\ lastReportedProgress' = currentProgress
                   /\ progressLog' = Append(progressLog,
                                            TrackerReport(uploaded, total, totalSize))
              ELSE /\ lastReportedProgress' = lastReportedProgress
                   /\ progressLog' = progressLog
    /\ UNCHANGED <<file, maxChunkSize, start, chunks, cfpc, impl, pc, chunkState,
                   storage, notes, uploadError, nextChunkIndex, activeChunks,
                   chunkProgress, batchI>>
    /\ UNCHANGED rtVars
    /\ UNCHANGED dlVars
    /\ UNCHANGED fmVars
    /\ UNCHANGED compUpload
    /\ UNCHANGED xhrEnd
    /\ UNCHANGED metadata

\* An uploadChunk that resolves on every load event, whatever the status.
UploadChunkResolvesOnLoad(how) ==
    IF how \in {"load2xx", "loadOther"} THEN "ok" ELSE "failed"
\* An uploadChunk with no ontimeout and no onabort handler: after these
\* events its promise stays pending.
UploadChunkWithoutTimeoutHandlers(how) ==
    IF how = "load2xx" THEN "ok"
    ELSE IF how \in {"loadOther", "error"} THEN "failed" ELSE "hung"
\* The handlers of uploadChunk (chunkUploader.ts:71-92): onload resolves when
\* 200 <= xhr.status < 300 and rejects otherwise; onerror, ontimeout and
\* onabort reject.
UploadChunkSettles(how) == IF how = "load2xx" THEN "ok" ELSE "failed"

\* The rejection that aborts the requests of the batch still in flight.
RequestsAbortedOnRejection(st) ==
    [j \in DOMAIN st |-> IF st[j] = "inflight" THEN "failed" ELSE st[j]]
\* The chunk requests when the await of Promise.all throws (upload.ts:142,
\* 164-167): uploadLargeFile has no catch and holds no reference to the
\* XMLHttpRequest objects, which stay inside uploadChunk
\* (chunkUploader.ts:48-97); the requests in flight go on.
RequestsAfterRejection(st) == st

\* The request of chunk k ends (chunkUploader.ts:71-92): the promise of
\* uploadChunk settles, and with it what the await of Promise.all releases
\* (upload.ts:106-154): the next batch, storeChunkMetadata, or the rejection of
\* uploadNote.
BatchChunkEnd(k, how) ==
    /\ impl = "batch"
    /\ k \in ChunkIndices
    /\ chunkState[k] = "inflight"
    /\ LET n     == Len(chunks)
           st    == [chunkState EXCEPT ![k] = UploadChunkSettles(how)]
           batch == BatchIndices(batchI, n)
           all   == PromiseAll(batch, st)
           next  == NextBatchStart(batchI)
       IN  /\ storage' = IF how = "load2xx"
                         THEN storage \cup {<<"chunk", k>>} ELSE storage
           /\ IF pc = "chunks" /\ all = "rejected"
              THEN \* the await of upload.ts:142 throws the first rejection
                   /\ chunkState' = RequestsAfterRejection(st)
                   /\ batchI' = batchI
                   /\ BatchReject([kind |-> "chunk", index |-> k, how |-> how],
                                  progressLog)
              ELSE IF pc = "chunks" /\ all = "fulfilled"
              THEN /\ batchI' = next
                   /\ IF next < n
                      THEN /\ chunkState' = [j \in 0..(n - 1) |->
                                 IF j \in BatchIndices(next, n) THEN "inflight" ELSE st[j]]
                           /\ pc' = "chunks"
                      ELSE /\ chunkState' = st
                           /\ pc' = "metadata"
                   /\ UNCHANGED <<progressLog, uploadError>>
              ELSE /\ chunkState' = st
                   /\ UNCHANGED <<batchI, pc, progressLog, uploadError>>
    /\ UNCHANGED <<file, maxChunkSize, start, chunks, cfpc, impl, sent,
                   totalUploaded, lastReportedProgress, notes,
                   nextChunkIndex, activeChunks, chunkProgress>>
    /\ UNCHANGED rtVars
    /\ UNCHANGED dlVars
    /\ UNCHANGED fmVars
    /\ UNCHANGED compUpload
    /\ xhrEnd' = xhrEnd \cup {<<k, how>>}
    /\ UNCHANGED metadata

\* The metadata that counts the chunks by the index of the last one.
ChunkMetadataLastIndex(f, cs) ==
    [totalChunks |-> Len(cs) - 1, totalSize |-> Size(f)]
\* const metadata = { ..., totalChunks: chunks.length, totalSize: file.size,
\* uploadId } (upload.ts:146-152).
ChunkMetadata(f, cs) == [totalChunks |-> Len(cs), totalSize |-> Size(f)]

\* A storeChunkMetadata that does not look at the error of the upload.
MetadataUploadUnchecked(how) == TRUE
\* if (error) { throw new Error(...) } (chunkUploader.ts:115-118).
MetadataUploaded(how) == how = "ok"

\* storeChunkMetadata: the upload of 'metadata/<uploadId>' returns
\* (chunkUploader.ts:110-117); on success createChunkedFileRecord issues the
\* insert (chunkUploader.ts:121-160).
BatchMetadataEnd(how) ==
    /\ impl = "batch"
    /\ pc = "metadata"
    /\ storage' = IF how = "ok" THEN storage \cup {<<"metadata">>} ELSE storage
    /\ metadata' = IF how = "ok" THEN {ChunkMetadata(file, chunks)} ELSE metadata
    /\ IF MetadataUploaded(how)
       THEN /\ pc' = "record"
            /\ UNCHANGED <<progressLog, uploadError>>
       ELSE BatchReject([kind |-> "metadata", index |-> 0, how |-> how], progressLog)
    /\ UNCHANGED <<file, maxChunkSize, start, chunks, cfpc, impl, chunkState, sent,
                   totalUploaded, lastReportedProgress, notes,
                   nextChunkIndex, activeChunks, chunkProgress, batchI>>
    /\ UNCHANGED rtVars
    /\ UNCHANGED dlVars
    /\ UNCHANGED fmVars
    /\ UNCHANGED compUpload
    /\ UNCHANGED xhrEnd

\* An uploadNote that inserts a notes row after uploadLargeFile as well.
AfterUploadLargeFileInsert == "insert"
\* if (!needsChunking) { ...insert... } (upload.ts:49-75): after
\* uploadLargeFile has returned uploadNote skips the insert and returns.
AfterUploadLargeFile == "resolved"

\* createChunkedFileRecord: the insert returns (chunkUploader.ts:151-165); on
\* success uploadLargeFile reports 100% and returns (upload.ts:158-163) and
\* uploadNote resolves (upload.ts:47-75).
BatchRecordEnd(how) ==
    /\ impl = "batch"
    /\ pc = "record"
    /\ IF how = "ok"
       THEN /\ notes' = Append(notes, [id |-> Len(notes) + 1, path |-> "chunked",
                                       file_url |-> ChunkedFileUrl])
            /\ progressLog' = Append(progressLog, Report(Size(file), Size(file)))
            /\ pc' = AfterUploadLargeFile
            /\ UNCHANGED uploadError
       ELSE /\ notes' = notes
            /\ BatchReject([kind |-> "record", index |-> 0, how |-> how], progressLog)
    /\ UNCHANGED <<file, maxChunkSize, start, chunks, cfpc, impl, chunkState, sent,
                   totalUploaded, lastReportedProgress, storage,
                   nextChunkIndex, activeChunks, chunkProgress, batchI>>
    /\ UNCHANGED rtVars
    /\ UNCHANGED dlVars
    /\ UNCHANGED fmVars
    /\ UNCHANGED compUpload
    /\ UNCHANGED xhrEnd
    /\ UNCHANGED metadata

\* uploadWithProgress: xhr.upload.onprogress (upload.ts:190-194).  The events of
\* one request carry increasing values of event.loaded; sent[0] is the last one.
BatchDirectProgress(loaded) ==
    /\ impl = "batch"
    /\ pc = "direct"
    /\ loaded \in (sent[0] + 1)..Size(file)
    /\ sent' = [sent EXCEPT ![0] = loaded]
    /\ progressLog' = Append(progressLog, Report(loaded, Size(file)))
    /\ UNCHANGED <<file, maxChunkSize, start, chunks, cfpc, impl, pc, chunkState,
                   totalUploaded, lastReportedProgress, storage, notes, uploadError,
                   nextChunkIndex, activeChunks, chunkProgress, batchI>>
    /\ UNCHANGED rtVars
    /\ UNCHANGED dlVars
    /\ UNCHANGED fmVars
    /\ UNCHANGED compUpload
    /\ UNCHANGED xhrEnd
    /\ UNCHANGED metadata

\* uploadWithProgress: the request ends (upload.ts:197-223); on a 2xx status
\* uploadNote goes on to insert the notes row (upload.ts:51-67).
BatchDirectEnd(how) ==
    /\ impl = "batch"
    /\ pc = "direct"
    /\ IF how = "load2xx"
       THEN /\ storage' = storage \cup {<<"file">>}
            /\ progressLog' = Append(progressLog, Report(Size(file), Size(file)))
            /\ pc' = "insert"
            /\ UNCHANGED uploadError
       ELSE /\ storage' = storage
            /\ BatchReject([kind |-> "direct", index |-> 0, how |-> how], progressLog)
    /\ UNCHANGED <<file, maxChunkSize, start, chunks, cfpc, impl, chunkState, sent,
                   totalUploaded, lastReportedProgress, notes,
                   nextChunkIndex, activeChunks, chunkProgress, batchI>>
    /\ UNCHANGED rtVars
    /\ UNCHANGED dlVars
    /\ UNCHANGED fmVars
    /\ UNCHANGED compUpload
    /\ UNCHANGED xhrEnd
    /\ UNCHANGED metadata

\* uploadNote: the insert of the direct path returns (upload.ts:57-75).
BatchInsertEnd(how) ==
    /\ impl = "batch"
    /\ pc = "insert"
    /\ IF how = "ok"
       THEN /\ notes' = Append(notes, [id |-> Len(notes) + 1, path |-> "direct",
                                       file_url |-> GetFileUrl(FilePath)])
            /\ pc' = "resolved"
            /\ UNCHANGED <<progressLog, uploadError>>
       ELSE /\ notes' = notes
            /\ BatchReject([kind |-> "insert", index |-> 0, how |-> how], progressLog)
    /\ UNCHANGED <<file, maxChunkSize, start, chunks, cfpc, impl, chunkState, sent,
                   totalUploaded, lastReportedProgress, storage,
                   nextChunkIndex, activeChunks, chunkProgress, batchI>>
    /\ UNCHANGED rtVars
    /\ UNCHANGED dlVars
    /\ UNCHANGED fmVars
    /\ UNCHANGED compUpload
    /\ UNCHANGED xhrEnd
    /\ UNCHANGED metadata

NextBatch ==
    \/ BatchUploadNoteCall
    \/ \E k \in 0..(CeilDiv(MaxFileSize, MAX_CHUNK_SIZE) - 1), loaded \in 0..MAX_CHUNK_SIZE :
          BatchChunkProgress(k, loaded)
    \/ \E k \in 0..(CeilDiv(MaxFileSize, MAX_CHUNK_SIZE) - 1), how \in XhrEnds :
          BatchChunkEnd(k, how)
    \/ \E how \in StoreEnds : BatchMetadataEnd(how)
    \/ \E how \in StoreEnds : BatchRecordEnd(how)
    \/ \E loaded \in 0..MaxFileSize : BatchDirectProgress(loaded)
    \/ \E how \in XhrEnds : BatchDirectEnd(how)
    \/ \E how \in StoreEnds : BatchInsertEnd(how)

InitBatch == InitUploadOf({"batch"})

SpecBatch == InitBatch /\ [][NextBatch]_vars

\* What the end of a request or of a store call always changes: the position
\* of uploadNote or the state of a chunk request.
endVars == <<pc, chunkState>>

\* Every request eventually ends (one of onload, onerror, ontimeout, onabort
\* fires) and every call of the store client eventually returns.
RequestsEnd ==
    /\ \A k \in 0..(CeilDiv(MaxFileSize, MAX_CHUNK_SIZE) - 1) :
           WF_endVars(\E how \in XhrEnds : BatchChunkEnd(k, how))
    /\ WF_endVars(\E how \in StoreEnds : BatchMetadataEnd(how))
    /\ WF_endVars(\E how \in StoreEnds : BatchRecordEnd(how))
    /\ WF_endVars(\E how \in XhrEnds : BatchDirectEnd(how))
    /\ WF_endVars(\E how \in StoreEnds : BatchInsertEnd(how))

SpecBatchFair == InitBatch /\ [][NextBatch]_vars /\ RequestsEnd

\* ------------------------------------------------ api.ts (worker pool)
\* Math.round(a / b) for a >= 0, b >= 1
RoundDiv(a, b) == (2 * a + b) \div (2 * b)

\* chunkProgress.reduce((sum, progress) => sum + progress, 0)
RECURSIVE SumProgress(_, _)
SumProgress(cp, n) == IF n <= 0 THEN 0 ELSE cp[n - 1] + SumProgress(cp, n - 1)

\* The promises chunkPromises holds when Promise.all is called (api.ts:221-226):
\* those pushed by the for loop.  Promise.all reads the array once, so what
\* api.ts:215 pushes later is not awaited.
AwaitedWorkers(totalChunks) == 0..(Min(MAX_CONCURRENT_CHUNKS, totalChunks) - 1)

\* The finally of processNextChunk (api.ts:211-217): does it start a chunk.
StartsNext(next, totalChunks) == {j \in {next} : j < totalChunks}

\* uploadNote up to its first await (api.ts:107-123): uploadLargeFile up to
\* Promise.all (api.ts:159-226), or uploadWithProgress up to xhr.send
\* (api.ts:272-312).
PoolUploadNoteCall ==
    /\ impl = "pool"
    /\ pc = "start"
    /\ LET totalChunks == CeilDiv(Size(file), CHUNK_SIZE)
           first       == Min(MAX_CONCURRENT_CHUNKS, totalChunks)
       IN  IF Size(file) > LARGE_FILE_SIZE
           THEN /\ progressLog' = <<Report(0, 100)>>
                /\ chunkProgress' = [k \in 0..(totalChunks - 1) |-> 0]
                /\ chunkState' = [k \in 0..(totalChunks - 1) |->
                       IF k < first THEN "inflight" ELSE "pending"]
                /\ nextChunkIndex' = first
                /\ activeChunks' = first
                /\ sent' = sent
                /\ pc' = "chunks"
           ELSE /\ progressLog' = <<Report(0, 100), Report(1, 100)>>
                /\ sent' = [k \in {0} |-> 0]
                /\ pc' = "direct"
                /\ UNCHANGED <<chunkProgress, chunkState, nextChunkIndex, activeChunks>>
    /\ UNCHANGED <<file, maxChunkSize, start, chunks, cfpc, impl, totalUploaded,
                   lastReportedProgress, storage, notes, uploadError, batchI>>
    /\ UNCHANGED rtVars
    /\ UNCHANGED dlVars
    /\ UNCHANGED fmVars
    /\ UNCHANGED compUpload
    /\ UNCHANGED xhrEnd
    /\ UNCHANGED metadata

\* The upload of chunk k returns (api.ts:194-217): the rest of
\* processNextChunk runs, its finally starts the next chunk, and the promise of
\* this worker settles; Promise.all (api.ts:226) settles with the workers it
\* awaits, and on success the metadata upload is issued (api.ts:234-247).
PoolChunkEnd(k, how) ==
    /\ impl = "pool"
    /\ k \in ChunkIndices
    /\ chunkState[k] = "inflight"
    /\ LET totalChunks == CeilDiv(Size(file), CHUNK_SIZE)
           cp      == IF how = "ok" THEN [chunkProgress EXCEPT ![k] = 100]
                      ELSE chunkProgress
           st      == [chunkState EXCEPT ![k] = IF how = "ok" THEN "ok" ELSE "failed"]
           started == StartsNext(nextChunkIndex, totalChunks)
           all     == PromiseAll(AwaitedWorkers(totalChunks), st)
       IN  /\ chunkProgress' = cp
           /\ storage' = IF how = "ok" THEN storage \cup {<<"part", k>>} ELSE storage
           /\ progressLog' =
                 IF how = "ok"
                 THEN Append(progressLog,
                             Report(RoundDiv(SumProgress(cp, totalChunks), totalChunks), 100))
                 ELSE progressLog
           /\ chunkState' = [j \in 0..(totalChunks - 1) |->
                                IF j \in started THEN "inflight" ELSE st[j]]
           /\ nextChunkIndex' = nextChunkIndex + Cardinality(started)
           /\ activeChunks' = activeChunks - 1 + Cardinality(started)
           /\ IF pc = "chunks" /\ all = "rejected"
              THEN /\ pc' = "rejected"
                   /\ uploadError' = [kind |-> "chunk", index |-> k, how |-> how]
              ELSE IF pc = "chunks" /\ all = "fulfilled"
              THEN /\ pc' = "metadata"
                   /\ UNCHANGED uploadError
              ELSE UNCHANGED <<pc, uploadError>>
    /\ UNCHANGED <<file, maxChunkSize, start, chunks, cfpc, impl, sent, totalUploaded,
                   lastReportedProgress, notes, batchI>>
    /\ UNCHANGED rtVars
    /\ UNCHANGED dlVars
    /\ UNCHANGED fmVars
    /\ UNCHANGED compUpload
    /\ UNCHANGED xhrEnd
    /\ UNCHANGED metadata

\* The upload of '<filePath>_metadata.json' returns (api.ts:241-252); on
\* success the copy of part 0 to filePath is issued (api.ts:255-257).
PoolMetadataEnd(how) ==
    /\ impl = "pool"
    /\ pc = "metadata"
    /\ IF how = "ok"
       THEN /\ storage' = storage \cup {<<"metadata.json">>}
            /\ pc' = "copy"
            /\ UNCHANGED uploadError
       ELSE /\ storage' = storage
            /\ pc' = "rejected"
            /\ uploadError' = [kind |-> "metadata", index |-> 0, how |-> how]
    /\ UNCHANGED <<file, maxChunkSize, start, chunks, cfpc, impl, chunkState, sent,
                   totalUploaded, lastReportedProgress, progressLog, notes,
                   nextChunkIndex, activeChunks, chunkProgress, batchI>>
    /\ UNCHANGED rtVars
    /\ UNCHANGED dlVars
    /\ UNCHANGED fmVars
    /\ UNCHANGED compUpload
    /\ UNCHANGED xhrEnd
    /\ UNCHANGED metadata

\* The copy returns (api.ts:255-267); on success 100 is reported,
\* uploadLargeFile returns and uploadNote issues the insert (api.ts:126-145).
PoolCopyEnd(how) ==
    /\ impl = "pool"
    /\ pc = "copy"
    /\ IF how = "ok"
       THEN /\ storage' = storage \cup {<<"file">>}
            /\ progressLog' = Append(progressLog, Report(100, 100))
            /\ pc' = "insert"
            /\ UNCHANGED uploadError
       ELSE /\ storage' = storage
            /\ progressLog' = progressLog
            /\ pc' = "rejected"
            /\ uploadError' = [kind |-> "copy", index |-> 0, how |-> how]
    /\ UNCHANGED <<file, maxChunkSize, start, chunks, cfpc, impl, chunkState, sent,
                   totalUploaded, lastReportedProgress, notes,
                   nextChunkIndex, activeChunks, chunkProgress, batchI>>
    /\ UNCHANGED rtVars
    /\ UNCHANGED dlVars
    /\ UNCHANGED fmVars
    /\ UNCHANGED compUpload
    /\ UNCHANGED xhrEnd
    /\ UNCHANGED metadata

\* uploadWithProgress: xhr.upload.onprogress (api.ts:287-292).
PoolDirectProgress(loaded) ==
    /\ impl = "pool"
    /\ pc = "direct"
    /\ loaded \in (sent[0] + 1)..Size(file)
    /\ sent' = [sent EXCEPT ![0] = loaded]
    /\ progressLog' = Append(progressLog, Report(RoundDiv(loaded * 100, Size(file)), 100))
    /\ UNCHANGED <<file, maxChunkSize, start, chunks, cfpc, impl, pc, chunkState,
                   totalUploaded, lastReportedProgress, storage, notes, uploadError,
                   nextChunkIndex, activeChunks, chunkProgress, batchI>>
    /\ UNCHANGED rtVars
    /\ UNCHANGED dlVars
    /\ UNCHANGED fmVars
    /\ UNCHANGED compUpload
    /\ UNCHANGED xhrEnd
    /\ UNCHANGED metadata

\* uploadWithProgress: the request ends (api.ts:294-307).  Only onload and
\* onerror have a handler: after a timeout or an abort the promise stays
\* pending and uploadNote never goes on.
PoolDirectEnd(how) ==
    /\ impl = "pool"
    /\ pc = "direct"
    /\ IF how = "load2xx"
       THEN /\ storage' = storage \cup {<<"file">>}
            /\ pc' = "insert"
            /\ UNCHANGED uploadError
       ELSE IF how \in {"loadOther", "error"}
       THEN /\ storage' = storage
            /\ pc' = "rejected"
            /\ uploadError' = [kind |-> "direct", index |-> 0, how |-> how]
       ELSE /\ storage' = storage
            /\ pc' = "hung"
            /\ UNCHANGED uploadError
    /\ UNCHANGED <<file, maxChunkSize, start, chunks, cfpc, impl, chunkState, sent,
                   totalUploaded, lastReportedProgress, progressLog, notes,
                   nextChunkIndex, activeChunks, chunkProgress, batchI>>
    /\ UNCHANGED rtVars
    /\ UNCHANGED dlVars
    /\ UNCHANGED fmVars
    /\ UNCHANGED compUpload
    /\ UNCHANGED xhrEnd
    /\ UNCHANGED metadata

\* An uploadNote that throws the insert error at once.
OnInsertErrorThrow == "rejected"
\* if (insertError) { await ...remove([filePath]); ...; throw insertError; }
\* (api.ts:147-152): the position uploadNote takes when the insert failed.
OnInsertError == "cleanup"

\* The insert of the notes row returns (api.ts:135-154); on an error the
\* removal of filePath is issued before the error is thrown (api.ts:149).
PoolInsertEnd(how) ==
    /\ impl = "pool"
    /\ pc = "insert"
    /\ IF how = "ok"
       THEN /\ notes' = Append(notes, [id |-> Len(notes) + 1,
                                    path |-> IF chunkState = <<>> THEN "direct"
                                             ELSE "chunked",
                                    file_url |-> GetFileUrl(FilePath)])
            /\ pc' = "resolved"
            /\ UNCHANGED uploadError
       ELSE /\ notes' = notes
            /\ pc' = OnInsertError
            /\ uploadError' = [kind |-> "insert", index |-> 0, how |-> how]
    /\ UNCHANGED <<file, maxChunkSize, start, chunks, cfpc, impl, chunkState, sent,
                   totalUploaded, lastReportedProgress, progressLog, storage,
                   nextChunkIndex, activeChunks, chunkProgress, batchI>>
    /\ UNCHANGED rtVars
    /\ UNCHANGED dlVars
    /\ UNCHANGED fmVars
    /\ UNCHANGED compUpload
    /\ UNCHANGED xhrEnd
    /\ UNCHANGED metadata

\* The removal of filePath returns (api.ts:149-151): whatever its outcome,
\* uploadNote throws the insert error.
PoolCleanupEnd(how) ==
    /\ impl = "pool"
    /\ pc = "cleanup"
    /\ storage' = IF how = "ok" THEN storage \ {<<"file">>} ELSE storage
    /\ pc' = "rejected"
    /\ UNCHANGED <<file, maxChunkSize, start, chunks, cfpc, impl, chunkState, sent,
                   totalUploaded, lastReportedProgress, progressLog, notes, uploadError,
                   nextChunkIndex, activeChunks, chunkProgress, batchI>>
    /\ UNCHANGED rtVars
    /\ UNCHANGED dlVars
    /\ UNCHANGED fmVars
    /\ UNCHANGED compUpload
    /\ UNCHANGED xhrEnd
    /\ UNCHANGED metadata

NextPool ==
    \/ PoolUploadNoteCall
    \/ \E k \in 0..(CeilDiv(MaxFileSize, CHUNK_SIZE) - 1), how \in StoreEnds :
          PoolChunkEnd(k, how)
    \/ \E how \in StoreEnds : PoolMetadataEnd(how)
    \/ \E how \in StoreEnds : PoolCopyEnd(how)
    \/ \E loaded \in 0..MaxFileSize : PoolDirectProgress(loaded)
    \/ \E how \in XhrEnds : PoolDirectEnd(how)
    \/ \E how \in StoreEnds : PoolInsertEnd(how)
    \/ \E how \in StoreEnds : PoolCleanupEnd(how)

InitPool == InitUploadOf({"pool"})

SpecPool == InitPool /\ [][NextPool]_vars

\* Both implementations of uploadNote.
Init == InitUploadOf({"batch", "pool"})

Next == NextBatch \/ NextPool

Spec == Init /\ [][Next]_vars

\* ---------------------------------------------------------------- deleteNote
\* The most calls of deleteNote in one behaviour.
MaxDeletes == 2

\* urlParts[urlParts.length - 2] + '/' + urlParts[urlParts.length - 1]
\* (api.ts:342-343).
DeleteFilePath(urlParts) ==
    <<urlParts[Len(urlParts) - 1], urlParts[Len(urlParts)]>>

\* storage.from("notes").remove([filePath]) succeeded: the bucket without the
\* object at filePath, unchanged when there is no such object.
StorageRemove(objs, filePath) == {o \in objs : ObjectPath(o) # filePath}

\* A deleteNote that goes on to the row whatever the removal returned.
DeleteIgnoresStorageError(storageError) == TRUE
\* if (storageError) { ...; throw storageError; } (api.ts:350-353): deleteNote
\* goes on to the row only without a storageError.
DeleteProceeds(storageError) == storageError # "error"

\* The upload vars neither the bucket nor the notes table.
upLocal == <<impl, pc, chunkState, sent, totalUploaded, lastReportedProgress,
             progressLog, uploadError, nextChunkIndex, activeChunks,
             chunkProgress, batchI>>

\* deleteNote(note) is called with a row of the notes table: the removal of
\* filePath is issued (api.ts:340-348).
DeleteNoteCall(i) ==
    /\ del.at \in {"idle", "resolved", "rejected"}
    /\ delCount < MaxDeletes
    /\ i \in 1..Len(notes)
    /\ del' = [at |-> "remove", note |-> notes[i], storageError |-> "unset"]
    /\ delCount' = delCount + 1
    /\ UNCHANGED <<file, maxChunkSize, start, chunks, cfpc>>
    /\ UNCHANGED upVars
    /\ UNCHANGED fmVars
    /\ UNCHANGED compUpload
    /\ UNCHANGED xhrEnd
    /\ UNCHANGED metadata
    /\ UNCHANGED rtVars

\* The removal returns (api.ts:346-353); without an error the row delete is
\* issued (api.ts:356-359).
DeleteRemoveEnd(how) ==
    /\ del.at = "remove"
    /\ LET storageError == IF how = "ok" THEN "null" ELSE "error"
       IN  /\ storage' = IF how = "ok"
                         THEN StorageRemove(storage, DeleteFilePath(del.note.file_url))
                         ELSE storage
           /\ del' = [del EXCEPT !.storageError = storageError,
                                 !.at = IF DeleteProceeds(storageError)
                                        THEN "delete" ELSE "rejected"]
    /\ UNCHANGED <<notes, delCount>>
    /\ UNCHANGED <<file, maxChunkSize, start, chunks, cfpc>>
    /\ UNCHANGED upLocal
    /\ UNCHANGED fmVars
    /\ UNCHANGED compUpload
    /\ UNCHANGED xhrEnd
    /\ UNCHANGED metadata
    /\ UNCHANGED rtVars

\* The row delete .delete().eq("id", note.id) returns (api.ts:356-364).
DeleteRowEnd(how) ==
    /\ del.at = "delete"
    /\ IF how = "ok"
       THEN /\ notes' = SelectSeq(notes, LAMBDA r : r.id # del.note.id)
            /\ del' = [del EXCEPT !.at = "resolved"]
       ELSE /\ notes' = notes
            /\ del' = [del EXCEPT !.at = "rejected"]
    /\ UNCHANGED <<storage, delCount>>
    /\ UNCHANGED <<file, maxChunkSize, start, chunks, cfpc>>
    /\ UNCHANGED upLocal
    /\ UNCHANGED fmVars
    /\ UNCHANGED compUpload
    /\ UNCHANGED xhrEnd
    /\ UNCHANGED metadata
    /\ UNCHANGED rtVars

NextDelete ==
    \/ \E i \in 1..Len(notes) : DeleteNoteCall(i)
    \/ \E how \in StoreEnds : DeleteRemoveEnd(how)
    \/ \E how \in StoreEnds : DeleteRowEnd(how)

\* A note is uploaded by either implementation and then deleted.
NextUploadDelete == NextBatch \/ NextPool \/ NextDelete

SpecDelete == Init /\ [][NextUploadDelete]_vars

\* ---------------------------------------------------------------- UploadForm
\* Sizes of the form are counted in blocks of 25MB.
\* MAX_FILE_SIZE = 50 * 1024 * 1024 (UploadForm.tsx:24).
MAX_FILE_SIZE == 2
\* The largest file chosen in the form, in blocks.
MaxFormFileSize == 3
\* The most files of one FileList.
MaxFiles == 2
\* The most submit events in one behaviour.
MaxSubmits == 2

\* The FileLists a change event can carry: the sizes of their files.
FileLists == SeqsUpTo(0..MaxFormFileSize, MaxFiles)

\* The schema without the refinement on the number of files; files[0] of an
\* empty FileList is undefined, and reading its size throws.
SchemaWithoutLength(title, value) ==
    /\ title
    /\ value.set
    /\ Len(value.files) >= 1
    /\ value.files[1] <= MAX_FILE_SIZE
\* uploadFormSchema (UploadForm.tsx:26-36): the title has 3 characters or
\* more, the file field is a FileList of exactly one file, and that file is
\* not larger than MAX_FILE_SIZE.
UploadFormSchema(title, value) ==
    /\ title
    /\ value.set
    /\ Len(value.files) = 1
    /\ value.files[1] <= MAX_FILE_SIZE

\* disabled={isUploading || isFileTooLarge} (UploadForm.tsx:210, 313).
SubmitDisabled ==
    isUploading \/ (selectedFile # <<>> /\ selectedFile[1] > MAX_FILE_SIZE)

\* The title field is edited.
TitleChange(ok) ==
    /\ formTitle' = ok
    /\ formTitle # ok
    /\ UNCHANGED <<formFile, selectedFile, isUploading, uploadProgress, formPc,
                   submitted, invoked, submits>>
    /\ UNCHANGED cfVars
    /\ UNCHANGED upVars
    /\ UNCHANGED <<xhrEnd, metadata>>
    /\ UNCHANGED rtVars
    /\ UNCHANGED <<del, delCount>>
    /\ UNCHANGED compUpload

\* handleFileChange (UploadForm.tsx:163-171) on a change event of the file
\* input that carries the FileList files.
HandleFileChange(files) ==
    /\ IF Len(files) > 0
       THEN /\ selectedFile' = <<files[1]>>
            /\ formFile' = [set |-> TRUE, files |-> files]
       ELSE /\ selectedFile' = <<>>
            /\ formFile' = formFile
    /\ <<selectedFile', formFile'>> # <<selectedFile, formFile>>
    /\ UNCHANGED <<formTitle, isUploading, uploadProgress, formPc, submitted,
                   invoked, submits>>
    /\ UNCHANGED cfVars
    /\ UNCHANGED upVars
    /\ UNCHANGED <<xhrEnd, metadata>>
    /\ UNCHANGED rtVars
    /\ UNCHANGED <<del, delCount>>
    /\ UNCHANGED compUpload

\* The form is submitted (UploadForm.tsx:214): handleSubmit validates the
\* values against the schema and calls onSubmit only when they are valid;
\* onSubmit runs up to the await of uploadNote (UploadForm.tsx:59-137), or to
\* its return at UploadForm.tsx:68 and then through its finally
\* (UploadForm.tsx:158-160).
Submit ==
    /\ ~SubmitDisabled
    /\ Len(submits) < MaxSubmits
    /\ IF UploadFormSchema(formTitle, formFile)
       THEN LET dataFile == formFile.files[1]
            IN  IF dataFile > MAX_FILE_SIZE
                THEN /\ submits' = Append(submits, "returned")
                     /\ isUploading' = FALSE
                     /\ UNCHANGED <<uploadProgress, formPc, submitted, invoked>>
                ELSE /\ submits' = Append(submits, "uploadNote")
                     /\ isUploading' = TRUE
                     /\ uploadProgress' = 0
                     /\ formPc' = "uploading"
                     /\ submitted' = <<dataFile>>
                     /\ invoked' = invoked \cup
                           {[files |-> Len(formFile.files), size |-> dataFile]}
       ELSE /\ submits' = Append(submits, "invalid")
            /\ UNCHANGED <<isUploading, uploadProgress, formPc, submitted, invoked>>
    /\ UNCHANGED <<formTitle, formFile, selectedFile>>
    /\ UNCHANGED cfVars
    /\ UNCHANGED upVars
    /\ UNCHANGED <<xhrEnd, metadata>>
    /\ UNCHANGED rtVars
    /\ UNCHANGED <<del, delCount>>
    /\ UNCHANGED compUpload

\* uploadNote calls trackProgress(loaded, total) (UploadForm.tsx:93-98).
TrackProgress(loaded) ==
    /\ formPc = "uploading"
    /\ submitted[1] > 0
    /\ loaded <= submitted[1]
    /\ uploadProgress' = RoundDiv(loaded * 100, submitted[1])
    /\ uploadProgress' # uploadProgress
    /\ UNCHANGED <<formTitle, formFile, selectedFile, isUploading, formPc,
                   submitted, invoked, submits>>
    /\ UNCHANGED cfVars
    /\ UNCHANGED upVars
    /\ UNCHANGED <<xhrEnd, metadata>>
    /\ UNCHANGED rtVars
    /\ UNCHANGED <<del, delCount>>
    /\ UNCHANGED compUpload

\* The promise of uploadNote settles: onSubmit resets the form
\* (UploadForm.tsx:139-150) or reports the error (UploadForm.tsx:151-157),
\* and its finally runs (UploadForm.tsx:158-160).
UploadNoteSettles(how) ==
    /\ formPc = "uploading"
    /\ formPc' = "idle"
    /\ submitted' = <<>>
    /\ isUploading' = FALSE
    /\ IF how = "ok"
       THEN /\ formTitle' = FALSE /\ formFile' = NoFileList
            /\ selectedFile' = <<>>
            /\ uploadProgress' = 0
       ELSE UNCHANGED <<formTitle, formFile, selectedFile, uploadProgress>>
    /\ UNCHANGED <<invoked, submits>>
    /\ UNCHANGED cfVars
    /\ UNCHANGED upVars
    /\ UNCHANGED <<xhrEnd, metadata>>
    /\ UNCHANGED rtVars
    /\ UNCHANGED <<del, delCount>>
    /\ UNCHANGED compUpload

NextForm ==
    \/ \E ok \in BOOLEAN : TitleChange(ok)
    \/ \E files \in FileLists : HandleFileChange(files)
    \/ Submit
    \/ \E loaded \in 0..MaxFormFileSize : TrackProgress(loaded)
    \/ \E how \in StoreEnds : UploadNoteSettles(how)

InitForm ==
    /\ FormIdle
    /\ file = <<>> /\ chunks = <<>> /\ CfIdle
    /\ UploadIdle
    /\ RateIdle
    /\ DeleteIdle
    /\ CompIdle

SpecForm == InitForm /\ [][NextForm]_vars

\* ------------------------------------------- upload with a compression pass
\* Largest file given to the upload with a compression pass, in blocks of
\* FormBlockMB megabytes.
MaxCompressSize == 4
\* The size of one block of the form's files, in MB.
FormBlockMB == 25
\* COMPRESSION_THRESHOLD in MB: "Files between 48MB and 75MB will be
\* compressed" (unnamed/part_008:228).
COMPRESSION_THRESHOLD_MB == 48

\* needsCompression = fileSize > COMPRESSION_THRESHOLD &&
\* fileSize <= MAX_FILE_SIZE * 1.5 (unnamed/part_008:67, 181).
NeedsCompression(fileSize) ==
    /\ fileSize * FormBlockMB > COMPRESSION_THRESHOLD_MB
    /\ 2 * fileSize <= MAX_FILE_SIZE * 3

\* A blob as the upload sends it: the gzip stream of data, or data itself.
Gzip(data) == [gzip |-> TRUE, data |-> data]
Plain(data) == [gzip |-> FALSE, data |-> data]

\* A compressFile that returns an empty blob when the compression fails.
CompressFileEmptyOnError(f, how) ==
    IF how = "ok" THEN [status |-> "returned", blob |-> Gzip(f)]
    ELSE [status |-> "returned", blob |-> Plain(<<>>)]
\* compressFile(file) (unnamed/part_003:26-46): the gzip blob of the file, or
\* the Error thrown by its catch when the stream or the compression failed.
CompressFile(f, how) ==
    IF how = "ok" THEN [status |-> "returned", blob |-> Gzip(f)]
    ELSE [status |-> "thrown", blob |-> Plain(<<>>)]

\* The payload after the compression pass: the compressed blob on success,
\* the original file when compressFile threw (the failure is logged only).
PayloadAfterCompression(f, result) ==
    IF result.status = "returned" THEN result.blob ELSE Plain(f)

\* The upload of file f is started: a file that needs compression goes to
\* compressFile, any other file is sent as it is.
CompUploadCall(f) ==
    /\ compUpload.at = "idle"
    /\ compUpload' = [compUpload EXCEPT
            !.file = f,
            !.payload = Plain(f),
            !.at = IF NeedsCompression(Size(f)) THEN "compressing" ELSE "uploading"]
    /\ UNCHANGED cfVars
    /\ UNCHANGED upVars
    /\ UNCHANGED <<xhrEnd, metadata>>
    /\ UNCHANGED rtVars
    /\ UNCHANGED dlVars
    /\ UNCHANGED fmVars

\* compressFile settles, and the upload goes on with the payload.
CompressFileEnd(how) ==
    /\ compUpload.at = "compressing"
    /\ compUpload' = [compUpload EXCEPT
            !.payload = PayloadAfterCompression(compUpload.file,
                                                CompressFile(compUpload.file, how)),
            !.compressionFailed = (how = "error"),
            !.at = "uploading"]
    /\ UNCHANGED cfVars
    /\ UNCHANGED upVars
    /\ UNCHANGED <<xhrEnd, metadata>>
    /\ UNCHANGED rtVars
    /\ UNCHANGED dlVars
    /\ UNCHANGED fmVars

\* The transfer of the payload and the insert of its row end.
CompUploadEnd(how) ==
    /\ compUpload.at = "uploading"
    /\ compUpload' = [compUpload EXCEPT
            !.transportFailed = (how = "error"),
            !.at = IF how = "ok" THEN "resolved" ELSE "rejected"]
    /\ UNCHANGED cfVars
    /\ UNCHANGED upVars
    /\ UNCHANGED <<xhrEnd, metadata>>
    /\ UNCHANGED rtVars
    /\ UNCHANGED dlVars
    /\ UNCHANGED fmVars

NextCompress ==
    \/ \E f \in SeqsUpTo(Byte, MaxCompressSize) : CompUploadCall(f)
    \/ \E how \in StoreEnds : CompressFileEnd(how)
    \/ \E how \in StoreEnds : CompUploadEnd(how)

InitCompress ==
    /\ CompIdle
    /\ FormIdle
    /\ file = <<>> /\ chunks = <<>> /\ CfIdle
    /\ UploadIdle
    /\ RateIdle
    /\ DeleteIdle

SpecCompress == InitCompress /\ [][NextCompress]_vars

\* ------------------------------------------- claims about api/upload.ts
\* The chunked path of uploadNote has been taken.
BatchChunked == impl = "batch" /\ pc \notin {"start", "direct", "insert"} /\ chunks # <<>>

\* uploadNote has settled.
Settled == pc \in {"resolved", "rejected"}

\* The percentage of report a is at most that of report b (loaded/total).
AtMost(a, b) == a.loaded * b.total <= b.loaded * a.total

\* C3: on the chunked path of api/upload.ts the percentages passed to
\* onProgress, counting the callbacks of chunk requests still in flight after
\* another chunk of the batch has failed, never decrease, and 100% is reported
\* when the upload succeeds and when it fails.
C3_ProgressNeverDecreases ==
    BatchChunked =>
        /\ \A a, b \in 1..Len(progressLog) :
              a < b => AtMost(progressLog[a], progressLog[b])
        /\ Settled => \E a \in 1..Len(progressLog) :
                         progressLog[a].loaded = progressLog[a].total

\* C5: the chunks of api/upload.ts are issued in consecutive batches of up to
\* MAX_PARALLEL_UPLOADS in index order: the chunks of one batch are started
\* together, and no chunk of a batch is started before every chunk of the
\* batches before it has completed successfully.
C5_BatchesInOrder ==
    BatchChunked =>
        /\ \A k \in ChunkIndices :
              chunkState[k] # "pending" =>
                  \A j \in ChunkIndices : j < BatchStartOf(k) => chunkState[j] = "ok"
        /\ \A k, j \in ChunkIndices :
              BatchStartOf(k) = BatchStartOf(j) =>
                  (chunkState[k] = "pending" <=> chunkState[j] = "pending")

\* The second batch is running: its chunk is in flight after the three chunks
\* of the first batch succeeded.
C5_Witness ==
    /\ BatchChunked
    /\ Len(chunks) > MAX_PARALLEL_UPLOADS
    /\ chunkState[MAX_PARALLEL_UPLOADS] = "inflight"
    /\ \A j \in 0..(MAX_PARALLEL_UPLOADS - 1) : chunkState[j] = "ok"

\* C6: in api/upload.ts, once a chunk upload has failed the upload is aborted:
\* no chunk of a later batch is started, storeChunkMetadata is not called, no
\* notes row is inserted, and uploadNote has rejected with the error of a chunk
\* that failed.
C6_ChunkFailureAborts ==
    (BatchChunked /\ \E k \in ChunkIndices : chunkState[k] = "failed") =>
        /\ pc = "rejected"
        /\ uploadError.kind = "chunk"
        /\ chunkState[uploadError.index] = "failed"
        /\ uploadError.how \in XhrEnds \ {"load2xx"}
        /\ \A j \in ChunkIndices :
              j >= batchI + MAX_PARALLEL_UPLOADS => chunkState[j] = "pending"
        /\ <<"metadata">> \notin storage
        /\ notes = <<>>

\* A chunk of the first batch failed while another chunk of that batch is
\* still in flight and a later batch exists.
C6_Witness ==
    /\ BatchChunked
    /\ pc = "rejected"
    /\ \E k \in ChunkIndices : chunkState[k] = "failed"
    /\ \E k \in ChunkIndices : chunkState[k] = "inflight"
    /\ \E k \in ChunkIndices : chunkState[k] = "pending"

\* C9: in api/upload.ts storeChunkMetadata is called, and the notes row of a
\* chunked upload inserted, only after every chunk of every batch has been
\* uploaded successfully: whenever the metadata step has begun or a notes row
\* exists, every chunk index 0..totalChunks-1 of the upload is stored.
C9_RowImpliesAllChunksStored ==
    (BatchChunked /\ (pc \in {"metadata", "record", "resolved"}
                        \/ <<"metadata">> \in storage \/ notes # <<>>)) =>
        /\ Len(chunks) = CeilDiv(Size(file), MAX_CHUNK_SIZE)
        /\ \A k \in 0..(Len(chunks) - 1) : <<"chunk", k>> \in storage

\* The notes row of an upload of two batches exists.
C9_Witness ==
    /\ BatchChunked
    /\ Len(chunks) > MAX_PARALLEL_UPLOADS
    /\ Len(notes) = 1 /\ notes[1].path = "chunked"

\* ------------------------------------------------- claims about api.ts
\* The chunked path of the uploadNote of api.ts has been taken.
PoolChunked == impl = "pool" /\ chunkState # <<>>

\* C4: at every instant of a chunked upload the number of chunk uploads
\* started and not yet settled is at most the parallelism bound
\* (MAX_PARALLEL_UPLOADS in api/upload.ts, MAX_CONCURRENT_CHUNKS in api.ts),
\* also after a chunk upload has failed.
C4_BoundedParallelism ==
    /\ impl = "batch" => Cardinality(InFlight) <= MAX_PARALLEL_UPLOADS
    /\ impl = "pool" => /\ Cardinality(InFlight) <= MAX_CONCURRENT_CHUNKS
                        /\ chunkState # <<>> => activeChunks = Cardinality(InFlight)

\* After a chunk upload failed, as many uploads as the bound allows are in
\* flight and chunks are still waiting.
C4_Witness ==
    /\ \E k \in ChunkIndices : chunkState[k] = "failed"
    /\ \E k \in ChunkIndices : chunkState[k] = "pending"
    /\ Cardinality(InFlight) = MAX_CONCURRENT_CHUNKS

\* C7: in the worker pool of api.ts a chunk upload failure aborts the upload:
\* once a chunk upload has failed no chunk that was not yet started is
\* started, the metadata file is not written, no notes row is inserted and
\* uploadNote does not resolve.
C7_PoolFailureAborts ==
    [][(PoolChunked /\ \E k \in DOMAIN chunkState' : chunkState'[k] = "failed") =>
          /\ \A j \in ChunkIndices :
                chunkState[j] = "pending" => chunkState'[j] = "pending"
          /\ <<"metadata.json">> \in storage' => <<"metadata.json">> \in storage
          /\ notes' = notes
          /\ pc' # "resolved"]_vars

\* C8: in the worker pool of api.ts the metadata file is written, part 0 is
\* copied to the main path and the notes row is inserted only after all
\* totalChunks chunk uploads have completed successfully, never while a chunk
\* upload is in flight or not yet started.
C8_PoolFinishesAfterAllChunks ==
    (PoolChunked /\ (<<"metadata.json">> \in storage \/ <<"file">> \in storage
                       \/ notes # <<>>)) =>
        \A k \in ChunkIndices : chunkState[k] = "ok"

\* ================================================================== rateNote
\* The most calls of rateNote in one behaviour.
MaxRateCalls == 3
\* The callers that can be inside rateNote at the same time.
Callers == {1, 2}
\* The notes, the anonymous user ids and the ratings the calls are made with.
NoteIds == {1}
UserIds == {1, 2}
RatingValues == {1, 5}

Pairs == NoteIds \X UserIds

NoCall == [at |-> "idle", note |-> 0, user |-> 0, rating |-> 0]

\* .eq("note_id", noteId).eq("user_id", userId): the positions of the rows
\* the filter selects.
Matching(rows, n, u) ==
    {i \in 1..Len(rows) : rows[i].note = n /\ rows[i].user = u}

\* The test with length > 1 in the place of length > 0.
ExistingRatingMoreThanOne(how, rows, n, u) ==
    how = "ok" /\ Cardinality(Matching(rows, n, u)) > 1
\* existingRating && existingRating.length > 0 (api.ts:71), where data is null
\* when the select returned an error.
ExistingRating(how, rows, n, u) == how = "ok" /\ Matching(rows, n, u) # {}

\* No rateNote call is between its call and its return.
Running(c) == calls[c].at \in {"select", "update", "insert"}

InitRate ==
    /\ ratings = <<>>
    /\ calls = [c \in Callers |-> NoCall]
    /\ rateCount = 0
    /\ overlapped = FALSE
    /\ lastResolved = [p \in Pairs |-> 0]
    /\ selectFailed = FALSE
    /\ fetched = [at |-> "idle", notes |-> <<>>] /\ fetchCount = 0
    /\ file = <<>> /\ chunks = <<>> /\ CfIdle
    /\ UploadIdle
    /\ DeleteIdle
    /\ FormIdle
    /\ CompIdle

\* rateNote(noteId, userId, rating) is called: the select is issued
\* (api.ts:65-69).
RateNoteCall(c, n, u, r) ==
    /\ ~Running(c)
    /\ rateCount < MaxRateCalls
    /\ calls' = [calls EXCEPT ![c] = [at |-> "select", note |-> n, user |-> u, rating |-> r]]
    /\ rateCount' = rateCount + 1
    /\ overlapped' = (overlapped \/ \E d \in Callers \ {c} : Running(d))
    /\ UNCHANGED <<ratings, lastResolved, selectFailed>>
    /\ UNCHANGED fnVars
    /\ UNCHANGED cfVars
    /\ UNCHANGED dlVars
    /\ UNCHANGED fmVars
    /\ UNCHANGED compUpload
    /\ UNCHANGED xhrEnd
    /\ UNCHANGED metadata
    /\ UNCHANGED upVars

\* The select returns (api.ts:65-71): its error is not read, and the update
\* (api.ts:73-77) or the insert (api.ts:85-91) is issued.
RateSelectEnd(c, how) ==
    /\ calls[c].at = "select"
    /\ calls' = [calls EXCEPT ![c].at =
                    IF ExistingRating(how, ratings, calls[c].note, calls[c].user)
                    THEN "update" ELSE "insert"]
    /\ selectFailed' = (selectFailed \/ how = "error")
    /\ UNCHANGED <<ratings, rateCount, overlapped, lastResolved>>
    /\ UNCHANGED fnVars
    /\ UNCHANGED cfVars
    /\ UNCHANGED dlVars
    /\ UNCHANGED fmVars
    /\ UNCHANGED compUpload
    /\ UNCHANGED xhrEnd
    /\ UNCHANGED metadata
    /\ UNCHANGED upVars

\* The update returns (api.ts:73-82).
RateUpdateEnd(c, how) ==
    /\ calls[c].at = "update"
    /\ LET n == calls[c].note
           u == calls[c].user
       IN  IF how = "ok"
           THEN /\ ratings' = [i \in 1..Len(ratings) |->
                                  IF i \in Matching(ratings, n, u)
                                  THEN [ratings[i] EXCEPT !.rating = calls[c].rating]
                                  ELSE ratings[i]]
                /\ calls' = [calls EXCEPT ![c].at = "resolved"]
                /\ lastResolved' = [lastResolved EXCEPT ![<<n, u>>] = calls[c].rating]
           ELSE /\ calls' = [calls EXCEPT ![c].at = "rejected"]
                /\ UNCHANGED <<ratings, lastResolved>>
    /\ UNCHANGED <<rateCount, overlapped, selectFailed>>
    /\ UNCHANGED fnVars
    /\ UNCHANGED cfVars
    /\ UNCHANGED dlVars
    /\ UNCHANGED fmVars
    /\ UNCHANGED compUpload
    /\ UNCHANGED xhrEnd
    /\ UNCHANGED metadata
    /\ UNCHANGED upVars

\* The insert returns (api.ts:85-96).
RateInsertEnd(c, how) ==
    /\ calls[c].at = "insert"
    /\ LET n == calls[c].note
           u == calls[c].user
       IN  IF how = "ok"
           THEN /\ ratings' = Append(ratings,
                       [note |-> n, user |-> u, rating |-> calls[c].rating])
                /\ calls' = [calls EXCEPT ![c].at = "resolved"]
                /\ lastResolved' = [lastResolved EXCEPT ![<<n, u>>] = calls[c].rating]
           ELSE /\ calls' = [calls EXCEPT ![c].at = "rejected"]
                /\ UNCHANGED <<ratings, lastResolved>>
    /\ UNCHANGED <<rateCount, overlapped, selectFailed>>
    /\ UNCHANGED fnVars
    /\ UNCHANGED cfVars
    /\ UNCHANGED dlVars
    /\ UNCHANGED fmVars
    /\ UNCHANGED compUpload
    /\ UNCHANGED xhrEnd
    /\ UNCHANGED metadata
    /\ UNCHANGED upVars

\* ---------------------------------------------------------------- fetchNotes
\* The most calls of fetchNotes in one behaviour.
MaxFetches == 1

RECURSIVE GCD(_, _)
GCD(a, b) == IF b = 0 THEN a ELSE GCD(b, a % b)

\* The number a / b, as the fraction in lowest terms.
Quotient(a, b) == [num |-> a \div GCD(a, b), den |-> b \div GCD(a, b)]

\* The embedded ratings(rating) of note n (api.ts:7-10): the ratings of the
\* rows of the note, in the order of the rows.
RatingsOf(rows, n) ==
    LET own == SelectSeq(rows, LAMBDA r : r.note = n)
    IN  [i \in 1..Len(own) |-> own[i].rating]

\* ratings.reduce((sum, r) => sum + r.rating, 0) (api.ts:26), over the first
\* i elements.
RECURSIVE ReduceSum(_, _)
ReduceSum(rs, i) == IF i <= 0 THEN 0 ELSE ReduceSum(rs, i - 1) + rs[i]

\* The average that is null for a single rating too.
AverageRatingNullOnOne(ratingsSum, length) ==
    IF length > 1 THEN Quotient(ratingsSum, length) ELSE [num |-> 0, den |-> 0]
\* ratings.length > 0 ? ratingsSum / ratings.length : null (api.ts:27); null is
\* the record with den = 0.
AverageRating(ratingsSum, length) ==
    IF length > 0 THEN Quotient(ratingsSum, length) ELSE [num |-> 0, den |-> 0]

\* The object the map callback returns for one note (api.ts:24-35).
NoteWithDetails(rs) ==
    [average_rating |-> AverageRating(ReduceSum(rs, Len(rs)), Len(rs)),
     ratings_count  |-> Len(rs)]

\* fetchNotes() is called and its query returns (api.ts:4-36): the notes of
\* NoteIds are the rows of the notes table, each with its ratings embedded.
FetchNotes(how) ==
    /\ fetchCount < MaxFetches
    /\ fetchCount' = fetchCount + 1
    /\ fetched' = IF how = "ok"
                  THEN [at |-> "resolved",
                        notes |-> [n \in NoteIds |->
                                      NoteWithDetails(RatingsOf(ratings, n))]]
                  ELSE [at |-> "rejected", notes |-> <<>>]
    /\ UNCHANGED <<ratings, calls, rateCount, overlapped, lastResolved,
                   selectFailed>>
    /\ UNCHANGED cfVars
    /\ UNCHANGED dlVars
    /\ UNCHANGED fmVars
    /\ UNCHANGED compUpload
    /\ UNCHANGED xhrEnd
    /\ UNCHANGED metadata
    /\ UNCHANGED upVars

NextRate ==
    \/ \E c \in Callers, n \in NoteIds, u \in UserIds, r \in RatingValues :
          RateNoteCall(c, n, u, r)
    \/ \E c \in Callers, how \in StoreEnds : RateSelectEnd(c, how)
    \/ \E c \in Callers, how \in StoreEnds : RateUpdateEnd(c, how)
    \/ \E c \in Callers, how \in StoreEnds : RateInsertEnd(c, how)
    \/ \E how \in StoreEnds : FetchNotes(how)

SpecRate == InitRate /\ [][NextRate]_vars

\* C10: after any sequence of rateNote calls that do not overlap in time,
\* whatever the outcome of the store calls, the ratings table holds at most
\* one row per (note_id, user_id), and once a call for a pair has resolved the
\* row of the pair carries the rating of the latest resolved call.
C10_OneRowPerPair ==
    ~overlapped =>
        \A p \in Pairs :
            /\ Cardinality(Matching(ratings, p[1], p[2])) <= 1
            /\ lastResolved[p] # 0 =>
                  \A i \in Matching(ratings, p[1], p[2]) :
                      ratings[i].rating = lastResolved[p]

\* C11: two rows for one (note_id, user_id) are reachable by two overlapping
\* calls whose selects both succeed and both find no row (C11_Witness); and
\* while every select succeeds, two rows for one pair exist only after two
\* calls have overlapped in time.
C11_DuplicateNeedsOverlap ==
    \A p \in Pairs :
        Cardinality(Matching(ratings, p[1], p[2])) >= 2 =>
            overlapped \/ selectFailed

\* Both callers rated the same pair, their calls overlapped, no select failed,
\* both calls resolved and the table holds two rows for the pair.
C11_Witness ==
    /\ overlapped /\ ~selectFailed /\ rateCount = 2
    /\ \A c \in Callers : calls[c].at = "resolved"
    /\ calls[1].note = calls[2].note /\ calls[1].user = calls[2].user
    /\ Cardinality(Matching(ratings, calls[1].note, calls[1].user)) = 2

\* The rows of note n in the ratings table.
RowsOfNote(n) == {i \in 1..Len(ratings) : ratings[i].note = n}

RECURSIVE SumOfRows(_)
SumOfRows(S) ==
    IF S = {} THEN 0
    ELSE LET i == CHOOSE j \in S : TRUE
         IN  ratings[i].rating + SumOfRows(S \ {i})

\* C12: when exactly two rateNote calls were made, for one note and two
\* different user ids, and both resolved, the note has exactly two rating rows,
\* one per user id; and every fetchNotes call that resolves returns for each
\* note ratings_count = the number of its rating rows and average_rating =
\* the sum of their ratings divided by that count, null exactly when the note
\* has no rating row.
C12_TwoRatersCountAndMean ==
    /\ [](\A n \in NoteIds : \A u1, u2 \in UserIds :
            (/\ u1 # u2 /\ rateCount = 2
             /\ lastResolved[<<n, u1>>] # 0 /\ lastResolved[<<n, u2>>] # 0)
            => /\ Cardinality(RowsOfNote(n)) = 2
               /\ Cardinality(Matching(ratings, n, u1)) = 1
               /\ Cardinality(Matching(ratings, n, u2)) = 1)
    /\ [][(fetchCount' # fetchCount /\ fetched'.at = "resolved") =>
            \A n \in NoteIds :
                LET rows == RowsOfNote(n)
                    out  == fetched'.notes[n]
                IN  /\ out.ratings_count = Cardinality(rows)
                    /\ (out.average_rating.den = 0) <=> (rows = {})
                    /\ rows # {} =>
                          /\ out.average_rating.den > 0
                          /\ out.average_rating.num * Cardinality(rows)
                                = SumOfRows(rows) * out.average_rating.den]_vars

\* A note rated 1 by one user id and 5 by the other, by two calls, fetched with
\* ratings_count 2 and average_rating 3.
C12_Witness ==
    /\ rateCount = 2 /\ \A c \in Callers : calls[c].at = "resolved"
    /\ calls[1].note = calls[2].note /\ calls[1].user # calls[2].user
    /\ calls[1].rating # calls[2].rating
    /\ fetched.at = "resolved"
    /\ fetched.notes[calls[1].note].ratings_count = 2
    /\ fetched.notes[calls[1].note].average_rating = [num |-> 3, den |-> 1]

\* C13: deleteNote removes the stored object first and the notes row second.
\* If the storage removal fails, deleteNote rejects, the row delete is not
\* issued and the notes row is unchanged; and a notes row disappears only in
\* a deleteNote whose storage removal has succeeded before.
C13_StorageRemovalFirst ==
    /\ [](del.storageError = "error" => del.at = "rejected")
    /\ [][(del.at = "remove" /\ del'.storageError = "error") =>
              (notes' = notes /\ del'.at = "rejected")]_vars
    /\ [][Len(notes') < Len(notes) =>
              (del.at = "delete" /\ del.storageError = "null")]_vars

\* A deleteNote whose storage removal failed: it has rejected and the row of
\* its note is still in the table.
C13_Witness ==
    /\ del.at = "rejected" /\ del.storageError = "error"
    /\ \E i \in 1..Len(notes) : notes[i].id = del.note.id

\* C14: after deleteNote has resolved for a note, the notes row is gone and
\* no object written by the upload that created the note is left in the
\* bucket, for a direct upload and for a chunked upload alike.
C14_DeleteLeavesNothing ==
    del.at = "resolved" => (notes = <<>> /\ storage = {})

\* C15: in uploadNote of api.ts, when the insert of the notes row fails after
\* the file was uploaded, the removal of the object at filePath is issued
\* before the insert error is thrown: a failed insert is followed by the
\* removal, and when the removal has returned uploadNote rejects with the
\* insert error, and no notes row exists.
C15_InsertFailureCleansUp ==
    /\ [][(impl = "pool" /\ pc = "insert" /\ pc' # "insert") =>
              \/ pc' = "resolved" /\ Len(notes') = Len(notes) + 1
              \/ pc' = "cleanup" /\ notes' = notes
                    /\ uploadError'.kind = "insert"]_vars
    /\ [][(impl = "pool" /\ pc = "cleanup" /\ pc' # "cleanup") =>
              /\ pc' = "rejected"
              /\ uploadError' = uploadError /\ uploadError.kind = "insert"
              /\ notes' = <<>>]_vars

\* uploadNote of api.ts has rejected with the insert error, after the removal
\* of the uploaded object has succeeded.
C15_Witness ==
    /\ impl = "pool" /\ pc = "rejected"
    /\ uploadError.kind = "insert"
    /\ <<"file">> \notin storage
    /\ notes = <<>>

\* C16: uploadNote of api/upload.ts takes one of two paths, by size alone.  A
\* file of size <= MAX_CHUNK_SIZE is sent as one request and no chunk upload
\* is ever issued; a file of size > MAX_CHUNK_SIZE is split and sent as chunk
\* uploads only, and no request for the whole file is ever issued.
C16_PathBySizeAlone ==
    (impl = "batch" /\ pc # "start") =>
        IF Size(file) <= MAX_CHUNK_SIZE
        THEN /\ chunkState = <<>> /\ chunks = <<>>
             /\ pc \in {"direct", "insert", "resolved", "rejected"}
             /\ \A o \in storage : o = <<"file">>
             /\ pc \in {"insert", "resolved"} => <<"file">> \in storage
        ELSE /\ Len(chunks) >= 2 /\ Concat(chunks) = file
             /\ DOMAIN chunkState = 0..(Len(chunks) - 1)
             /\ \E k \in ChunkIndices : chunkState[k] # "pending"
             /\ pc \in {"chunks", "metadata", "record", "resolved", "rejected"}
             /\ <<"file">> \notin storage

\* A file of exactly MAX_CHUNK_SIZE has been uploaded by one request.
C16_Witness ==
    /\ impl = "batch" /\ pc = "resolved"
    /\ Size(file) = MAX_CHUNK_SIZE
    /\ storage = {<<"file">>}
    /\ chunkState = <<>>

\* C17: uploadChunk settles exactly once per call.  It resolves, with the path
\* of the chunk's object, if and only if its request ended with a status in
\* 200..299; it rejects when the request ended with another status, a
\* network error, a timeout or an abort.
C17_UploadChunkSettlesOnce ==
    impl = "batch" =>
        \A k \in ChunkIndices :
            LET ends == {e \in xhrEnd : e[1] = k}
            IN  /\ Cardinality(ends) <= 1
                /\ chunkState[k] \in {"pending", "inflight"} <=> ends = {}
                /\ chunkState[k] = "ok" <=> ends = {<<k, "load2xx">>}
                /\ chunkState[k] = "ok" => <<"chunk", k>> \in storage
                /\ chunkState[k] = "failed" <=>
                      \E how \in XhrEnds \ {"load2xx"} : ends = {<<k, how>>}

\* Of three chunks one request ended with a 2xx status, one with another
\* status and one was aborted.
C17_Witness ==
    /\ impl = "batch"
    /\ \E a, b, c \in ChunkIndices :
          /\ chunkState[a] = "ok" /\ <<a, "load2xx">> \in xhrEnd
          /\ chunkState[b] = "failed" /\ <<b, "loadOther">> \in xhrEnd
          /\ chunkState[c] = "failed" /\ <<c, "abort">> \in xhrEnd

\* C18: the metadata persisted by a chunked upload of api/upload.ts satisfies
\* totalChunks = ceil(totalSize / MAX_CHUNK_SIZE), hence
\* totalChunks * MAX_CHUNK_SIZE >= totalSize > (totalChunks - 1) * MAX_CHUNK_SIZE,
\* and totalChunks >= 2; totalSize is the size of the file.
C18_MetadataTotalChunks ==
    /\ (impl = "batch" /\ <<"metadata">> \in storage) => metadata # {}
    /\ \A m \in metadata :
          /\ m.totalSize = Size(file)
          /\ m.totalChunks = CeilDiv(m.totalSize, MAX_CHUNK_SIZE)
          /\ m.totalChunks * MAX_CHUNK_SIZE >= m.totalSize
          /\ m.totalSize > (m.totalChunks - 1) * MAX_CHUNK_SIZE
          /\ m.totalChunks >= 2

\* The metadata of a file of two full chunks and one block more is persisted.
C18_Witness ==
    /\ impl = "batch" /\ <<"metadata">> \in storage
    /\ metadata = {[totalChunks |-> 3, totalSize |-> 2 * MAX_CHUNK_SIZE + 1]}

\* The values of the form pass validation for an upload: one file, not
\* larger than MAX_FILE_SIZE.
OneFileWithinLimit ==
    /\ formFile.set /\ Len(formFile.files) = 1
    /\ formFile.files[1] <= MAX_FILE_SIZE

\* C19: through the UploadForm uploadNote is never invoked for a file larger
\* than MAX_FILE_SIZE, nor when the number of files of the file field is not
\* exactly one; a submission in such a case leaves isUploading and
\* uploadProgress unchanged.
C19_FormValidation ==
    /\ [](\A call \in invoked : call.files = 1 /\ call.size <= MAX_FILE_SIZE)
    /\ [][(submits' # submits /\ ~OneFileWithinLimit) =>
              /\ invoked' = invoked
              /\ isUploading' = isUploading
              /\ uploadProgress' = uploadProgress
              /\ formPc' = formPc]_vars

\* After an upload that failed at 50%, a too large file was chosen and the
\* choice then emptied; the form was submitted again, and nothing was invoked
\* for the too large file.
C19_Witness ==
    /\ submits = <<"uploadNote", "invalid">> /\ formPc = "idle"
    /\ formTitle /\ formFile.set /\ Len(formFile.files) = 1
    /\ formFile.files[1] > MAX_FILE_SIZE
    /\ selectedFile = <<>>
    /\ uploadProgress = 50 /\ ~isUploading
    /\ Cardinality(invoked) = 1

Chunked == chunkState # <<>>

\* The only changes of the state of a chunk request: it is sent once, from
\* "pending", and it ends once, from "inflight".
SentAtMostOnce ==
    \A k \in ChunkIndices :
        (chunkState' # <<>> /\ chunkState'[k] # chunkState[k]) =>
            \/ chunkState[k] = "pending" /\ chunkState'[k] = "inflight"
            \/ chunkState[k] = "inflight" /\ chunkState'[k] \in {"ok", "failed"}

\* C21: within one chunked upload no chunk is retried or duplicated: each index
\* in 0..totalChunks-1 is sent in at most one request, and in exactly one when
\* the upload succeeds; the object path of a chunk is a function of (uploadId,
\* index), distinct for distinct indices, so no chunk object overwrites
\* another. This holds for the batch loop of api/upload.ts and for the worker
\* pool of api.ts.
C21_NoChunkResent ==
    /\ [][SentAtMostOnce]_vars
    /\ []((Chunked /\ pc = "resolved") =>
             \A k \in ChunkIndices : chunkState[k] # "pending")
    /\ [](\A o1, o2 \in storage : ObjectPath(o1) = ObjectPath(o2) => o1 = o2)

\* The part of C21 that holds of both implementations: no index is sent
\* twice, no two objects share a path, and the batch loop has sent every chunk
\* when uploadNote resolves.
C21_NoChunkResentBatchAll ==
    /\ [][SentAtMostOnce]_vars
    /\ []((Chunked /\ impl = "batch" /\ pc = "resolved") =>
             \A k \in ChunkIndices : chunkState[k] = "ok")
    /\ [](\A o1, o2 \in storage : ObjectPath(o1) = ObjectPath(o2) => o1 = o2)

\* C22: a failed chunked upload of api/upload.ts rolls nothing back and
\* cancels nothing: no stored object is ever removed, a rejected uploadNote
\* leaves no notes row, the chunk requests in flight when uploadNote rejects
\* stay in flight, and one of them that then ends with a 2xx status stores its
\* object.
C22_NoRollbackNoCancel ==
    /\ [][BatchChunked => storage \subseteq storage']_vars
    /\ []((BatchChunked /\ pc = "rejected") => notes = <<>>)
    /\ [][(BatchChunked /\ pc = "chunks" /\ pc' = "rejected") =>
              \A j \in ChunkIndices :
                  (j # uploadError'.index /\ chunkState[j] = "inflight")
                      => chunkState'[j] = "inflight"]_vars
    /\ [][(BatchChunked /\ pc = "rejected") =>
              \A j \in ChunkIndices :
                  (chunkState[j] = "inflight" /\ chunkState'[j] = "ok")
                      => <<"chunk", j>> \in storage']_vars

\* Chunk 0 failed and uploadNote rejected, reporting 100%; chunk 1, still in
\* flight, reported progress after that and then stored its object; chunk 2
\* is in flight and has reported nothing; there is no notes row.
C22_Witness ==
    /\ BatchChunked /\ pc = "rejected" /\ Len(chunks) = 3
    /\ uploadError = [kind |-> "chunk", index |-> 0, how |-> "error"]
    /\ \E i \in 1..(Len(progressLog) - 1) :
          /\ progressLog[i] = Report(Size(file), Size(file))
          /\ progressLog[Len(progressLog)].loaded < Size(file)
    /\ <<"chunk", 1>> \in storage
    /\ chunkState[2] = "inflight" /\ sent[2] = 0
    /\ notes = <<>>

\* Math.floor((loaded / total) * 100) of a report.
WholePercent(r) == (r.loaded * 100) \div r.total

\* A progress event of a chunk request is handled in this step.
ChunkEvent == BatchChunked /\ (sent' # sent \/ totalUploaded' # totalUploaded)

\* The reports made by the trackers of the chunks, as long as uploadNote has
\* not rejected: those after the first report of uploadNote and before the
\* last report of uploadLargeFile.
ChunkPhaseReports ==
    SubSeq(progressLog, 2,
           IF pc = "resolved" THEN Len(progressLog) - 1 ELSE Len(progressLog))

\* C23: the progress reports made from chunk events in uploadLargeFile of
\* api/upload.ts are throttled to whole-percent changes: a chunk event calls
\* onProgress only when the whole percent of totalUploaded is strictly greater
\* than the last whole percent reported, nothing else moves the last whole
\* percent reported, and so no two chunk-phase reports carry the same whole
\* percent.
C23_ThrottledToWholePercent ==
    /\ [][ChunkEvent =>
              LET currentProgress == (totalUploaded' * 100) \div Size(file)
              IN  IF currentProgress > lastReportedProgress
                  THEN /\ progressLog' =
                              Append(progressLog, Report(totalUploaded', Size(file)))
                       /\ lastReportedProgress' = currentProgress
                  ELSE /\ progressLog' = progressLog
                       /\ lastReportedProgress' = lastReportedProgress]_vars
    /\ [][(BatchChunked /\ ~ChunkEvent) =>
              lastReportedProgress' = lastReportedProgress]_vars
    /\ []((BatchChunked /\ pc # "rejected") =>
             \A a, b \in 1..Len(ChunkPhaseReports) :
                 a < b => WholePercent(ChunkPhaseReports[a])
                              < WholePercent(ChunkPhaseReports[b]))

\* A file of 5 blocks in 3 chunks: chunk 0 reported its first block (20%),
\* chunk 1 then reported its first block, which is 20% again and was not
\* reported, and chunk 2 reported its one block.
C23_Witness ==
    /\ BatchChunked /\ pc = "chunks" /\ Size(file) = 5
    /\ sent = (0 :> 1 @@ 1 :> 1 @@ 2 :> 1)
    /\ progressLog = <<Report(0, 5), Report(1, 5)>>
    /\ lastReportedProgress = 20

\* C24: in the worker-pool upload of api.ts, for any totalChunks, the
\* percentages passed to onProgress are non-decreasing, 100 is reported only
\* after every chunk has completed, and no value below 100 is reported after
\* 100.
C24_PoolProgressMonotone ==
    /\ [](PoolChunked =>
             \A a, b \in 1..Len(progressLog) :
                 a < b => progressLog[a].loaded <= progressLog[b].loaded)
    /\ [][(PoolChunked /\ progressLog' # progressLog
              /\ progressLog'[Len(progressLog')].loaded = 100) =>
              \A k \in ChunkIndices : chunkState'[k] = "ok"]_vars

\* C25: the direct upload of api.ts (uploadWithProgress with a progress
\* callback) fails on every transport failure: when its request ends, the
\* promise is fulfilled if the object was stored and rejected otherwise
\* (network error, timeout, abort, status outside 2xx), so uploadNote is never
\* left waiting for a request that has ended.
C25_DirectUploadSettles ==
    /\ [][(impl = "pool" /\ pc = "direct" /\ pc' # "direct") =>
              IF <<"file">> \in storage' THEN pc' = "insert" ELSE pc' = "rejected"]_vars
    /\ [](impl = "pool" => pc # "hung")

\* C26: every call onProgress(loaded, total) made during a chunked upload of
\* api/upload.ts has 0 <= loaded <= total and total = file.size, whatever the
\* interleaving of the progress events of the chunks of a batch, and the first
\* call is (0, file.size).
C26_ReportsWithinFileSize ==
    BatchChunked =>
        /\ progressLog # <<>>
        /\ progressLog[1] = Report(0, Size(file))
        /\ \A i \in 1..Len(progressLog) :
              /\ progressLog[i].total = Size(file)
              /\ 0 <= progressLog[i].loaded
              /\ progressLog[i].loaded <= progressLog[i].total

\* A file of 5 blocks was uploaded in 3 chunks of one batch whose progress
\* events interleaved: chunk 0 reported 1 block, chunk 1 passed 1 block
\* unreported, chunk 0 reported 2 blocks, and uploadLargeFile reported (5, 5).
C26_Witness ==
    /\ BatchChunked /\ pc = "resolved" /\ Size(file) = 5
    /\ sent = (0 :> 2 @@ 1 :> 1 @@ 2 :> 0)
    /\ progressLog = <<Report(0, 5), Report(1, 5), Report(2, 5), Report(5, 5)>>

\* C27: one call of uploadNote of api/upload.ts inserts exactly one notes row
\* when it resolves and none when it rejects, on the direct path and on the
\* chunked path; no call inserts two rows.
C27_OneRowPerUpload ==
    impl = "batch" =>
        /\ Len(notes) <= 1
        /\ pc = "resolved" => Len(notes) = 1
        /\ pc = "rejected" => notes = <<>>

\* A chunked upload of 3 chunks has resolved and the notes table holds the one
\* row createChunkedFileRecord inserted.
C27_Witness ==
    /\ impl = "batch" /\ pc = "resolved" /\ Len(chunks) = 3
    /\ Len(notes) = 1 /\ notes[1].path = "chunked"
    /\ notes[1].file_url = ChunkedFileUrl

\* C28: storeChunkMetadata writes 'metadata/<uploadId>' before it inserts the
\* notes row: when the metadata write fails the call rejects and no row is
\* inserted, the row of a chunked upload is inserted only when the metadata
\* object is in storage, and whenever such a row exists the metadata object
\* was stored.
C28_MetadataBeforeRow ==
    /\ [][(impl = "batch" /\ pc = "metadata" /\ pc' # "metadata"
              /\ <<"metadata">> \notin storage') =>
              /\ pc' = "rejected" /\ uploadError'.kind = "metadata"
              /\ notes' = notes]_vars
    /\ [][(impl = "batch" /\ notes' # notes /\ notes'[Len(notes')].path = "chunked") =>
              <<"metadata">> \in storage]_vars
    /\ []((impl = "batch" /\ pc = "rejected" /\ uploadError.kind = "metadata") =>
             notes = <<>>)
    /\ []((impl = "batch" /\ \E i \in 1..Len(notes) : notes[i].path = "chunked") =>
             <<"metadata">> \in storage)

\* The upload of the metadata of a chunked upload of 2 chunks failed: both
\* chunk objects are stored, there is no metadata object and no notes row, and
\* uploadNote has rejected.
C28_Witness ==
    /\ impl = "batch" /\ pc = "rejected" /\ Len(chunks) = 2
    /\ uploadError = [kind |-> "metadata", index |-> 0, how |-> "error"]
    /\ storage = {<<"chunk", 0>>, <<"chunk", 1>>}
    /\ notes = <<>>

\* uploadNote of api/upload.ts has been called and has not settled.
BatchCalled ==
    impl = "batch" /\ pc \in {"chunks", "metadata", "record", "direct", "insert"}

\* C29: uploadNote of api/upload.ts always settles, on the direct path and on
\* the chunked path with any number of chunks, provided every request
\* eventually ends in one of load, error, timeout, abort and every store call
\* eventually returns.
C29_UploadNoteSettles == BatchCalled ~> Settled

\* uploadNote has rejected on the timeout of chunk 3, the one chunk of the
\* second batch of a file of 4 chunks.
C29_Witness ==
    /\ impl = "batch" /\ pc = "rejected" /\ Len(chunks) = 4
    /\ uploadError = [kind |-> "chunk", index |-> 3, how |-> "timeout"]
    /\ \A k \in 0..2 : chunkState[k] = "ok"

\* C30: the loop of createFileChunks terminates for every file size S >= 0 and
\* every maxChunkSize >= 1: start strictly increases in each iteration, never
\* exceeds S, and the loop ends, with start = S.
C30_ChunkLoopTerminates ==
    /\ [][(cfpc = "loop" /\ chunks' # chunks) => start' > start]_vars
    /\ [](start <= Size(file))
    /\ [](cfpc = "done" => start = Size(file))
    /\ <>(cfpc = "done")

\* The loop has ended after 3 iterations on a file of 7 bytes with
\* maxChunkSize 3.
C30_Witness ==
    /\ cfpc = "done" /\ Size(file) = 7 /\ maxChunkSize = 3
    /\ start = 7 /\ Len(chunks) = 3

====
